---- MODULE Spec2Model ----
(***************************************************************************)
(* A model of DataProcessing/ComputeObservables.py: ComputeObservedLight   *)
(* and ComputeObservedCharge, the per-event observable extraction.         *)
(*                                                                         *)
(* Reals are exact rationals with the IEEE special values the code can     *)
(* produce (NaN from 0/0, inf from x/0).  The shared numpy random source   *)
(* is a fixed cycle of raw words; a seed picks the position in the cycle,  *)
(* every draw consumes the next word.  An input table is a row repeated n  *)
(* times; the accumulator lists are kept run-length encoded.               *)
(***************************************************************************)
EXTENDS Integers, Sequences, FiniteSets, TLC

VARIABLES
  dfsim,                  \* ComputeObservedLight's argument: [fInitNOP, n]
  dfelec,                 \* ComputeObservedCharge's argument: [row, n]
  channel_threshold,      \* the argument, [valid, v]
  seed,                   \* the seeded state of np.random
  rng,                    \* the current state of np.random
  pc,                     \* where the caller / the function is
  err,                    \* the exception that ended the call
  counter,                \* line 37, 41
  ev,                     \* the loop body's locals (lines 45-54, 110)
  lists,                  \* the 13 accumulator lists (lines 21-34)
  output_dict,            \* line 19, 127-143
  detected_photoelectrons,\* ComputeObservedLight's result
  run,                    \* 1: first run, 2: the repeated run
  first                   \* what the first run produced

vars == <<dfsim, dfelec, channel_threshold, seed, rng, pc, err, counter, ev,
          lists, output_dict, detected_photoelectrons, run, first>>

---------------------------------------------------------------------------
(* Bounds of the model *)
MaxEvents == 1
MaxCh == 2

(* Constants of the program *)
ReportInterval == 100000
DefaultThreshold == -100000
LocalIdSplit == 15
StripLong == 96
StripShort == 6
JitterSigma == 2
NoiseSigma == 600

---------------------------------------------------------------------------
(* Floating-point values: exact rationals n/d (d > 0, lowest terms),       *)
(* "inf" (sign n), "nan".                                                  *)

Abs(a) == IF a < 0 THEN -a ELSE a
Sgn(a) == IF a < 0 THEN -1 ELSE IF a = 0 THEN 0 ELSE 1

RECURSIVE GCD(_, _)
GCD(a, b) == IF b = 0 THEN a ELSE GCD(b, a % b)

Num(n, d) ==
  LET g == GCD(Abs(n), d)
  IN [t |-> "num", n |-> n \div g, d |-> d \div g]
NaN == [t |-> "nan", n |-> 0, d |-> 1]
Inf(s) == [t |-> "inf", n |-> s, d |-> 1]

FMul(a, b) ==
  IF a.t = "nan" \/ b.t = "nan" THEN NaN
  ELSE IF a.t = "inf" \/ b.t = "inf"
       THEN IF a.n = 0 \/ b.n = 0 THEN NaN ELSE Inf(Sgn(a.n) * Sgn(b.n))
       ELSE Num(a.n * b.n, a.d * b.d)

FAdd(a, b) ==
  IF a.t = "nan" \/ b.t = "nan" THEN NaN
  ELSE IF a.t = "inf" /\ b.t = "inf"
       THEN IF a.n = b.n THEN a ELSE NaN
       ELSE IF a.t = "inf" THEN a
       ELSE IF b.t = "inf" THEN b
       ELSE Num(a.n * b.d + b.n * a.d, a.d * b.d)

\* numpy float64 division: 0/0 is nan, x/0 is +-inf, no exception
FDiv(a, b) ==
  IF a.t = "nan" \/ b.t = "nan" THEN NaN
  ELSE IF a.t = "inf" THEN (IF b.t = "inf" THEN NaN
                            ELSE Inf(a.n * (IF b.n < 0 THEN -1 ELSE 1)))
  ELSE IF b.t = "inf" THEN Num(0, 1)
  ELSE IF b.n = 0 THEN (IF a.n = 0 THEN NaN ELSE Inf(Sgn(a.n)))
  ELSE Num(a.n * b.d * Sgn(b.n), a.d * Abs(b.n))

\* np.sqrt(a**2 + b**2): nan if either is nan, else inf if either is
\* infinite, else the non-negative root of a*a + b*b, kept as the pair
FHypot(a, b) ==
  [t |-> IF a.t = "nan" \/ b.t = "nan" THEN "nan"
         ELSE IF a.t = "inf" \/ b.t = "inf" THEN "inf"
         ELSE "hypot",
   x |-> a, y |-> b]

\* np.sum of a float array; 0.0 for the empty array
RECURSIVE FSum(_)
FSum(s) == IF s = <<>> THEN Num(0, 1) ELSE FAdd(FSum(Tail(s)), Head(s))

\* elementwise product of two arrays of one length
Prod(a, b) == [k \in 1..Len(a) |-> FMul(a[k], b[k])]

---------------------------------------------------------------------------
(* Boolean masks and integer arrays *)

MaskAnd(a, b) == [k \in 1..Len(a) |-> a[k] /\ b[k]]
MaskNot(a) == [k \in 1..Len(a) |-> ~a[k]]

\* np.sum of a boolean mask
RECURSIVE CountTrue(_)
CountTrue(m) ==
  IF m = <<>> THEN 0
  ELSE (IF Head(m) THEN 1 ELSE 0) + CountTrue(Tail(m))

\* np.sum(values[mask])
RECURSIVE SumWhere(_, _)
SumWhere(v, m) ==
  IF v = <<>> THEN 0
  ELSE (IF Head(m) THEN Head(v) ELSE 0) + SumWhere(Tail(v), Tail(m))

---------------------------------------------------------------------------
(* The accumulator lists, run-length encoded: <<[v, n], ...>> stands for   *)
(* v repeated n times, run after run.                                      *)

ListAppend(l, v) ==
  IF l # <<>> /\ l[Len(l)].v = v
  THEN [l EXCEPT ![Len(l)].n = @ + 1]
  ELSE Append(l, [v |-> v, n |-> 1])

RECURSIVE ListLen(_)
ListLen(l) == IF l = <<>> THEN 0 ELSE Head(l).n + ListLen(Tail(l))

ListLast(l) == l[Len(l)].v

IntColumns ==
  {"num_channels_nonzero_charge_with_noise",
   "num_channels_nonzero_charge_excluding_noise",
   "num_channels_in_evt", "num_channels_excluding_noise",
   "num_channels_collection", "num_collection_below_threshold",
   "num_channels_induction", "evt_charge_excluding_noise",
   "evt_charge_including_noise", "evt_charge_above_threshold",
   "num_channels_above_threshold"}
FloatColumns == {"weighted_radius", "weighted_drift"}
Columns == IntColumns \cup FloatColumns

---------------------------------------------------------------------------
(* The shared random source *)

Stream == <<0, 0, 1, 0, 2, 1, 1, 2, 2>>
Seeds == 1..Len(Stream)

Word(pos) == Stream[pos]
Advance(pos, k) == ((pos - 1 + k) % Len(Stream)) + 1

\* np.random.normal(0., 2.)
JitterOf(w) == (w - 1) * JitterSigma
\* np.random.normal(0., 600.)
NoiseOf(w) == (w - 1) * NoiseSigma
\* np.random.binomial(n, 0.03): a value in 0..n
BinomialOf(n, w) == IF w <= n THEN w ELSE n
\* np.random.poisson(lam), lam = detected_photons*0.2: 0 when lam = 0
PoissonOf(photons, w) == IF photons = 0 THEN 0 ELSE w

---------------------------------------------------------------------------
(* Inputs *)

\* One readout channel: localId, charge, time, xPosition, yPosition, noiseTag
Kinds ==
  { [id |-> 20, q |-> 5,       t |-> 100, x |-> 10, y |-> 0,  tag |-> 0],
    [id |-> 3,  q |-> 5,       t |-> 100, x |-> 0,  y |-> 10, tag |-> 0],
    [id |-> 3,  q |-> 5,       t |-> 100, x |-> 0,  y |-> 10, tag |-> 1],
    [id |-> 20, q |-> 0,       t |-> 100, x |-> 10, y |-> 0,  tag |-> 0],
    [id |-> 20, q |-> -5,      t |-> 100, x |-> 0,  y |-> 10, tag |-> 0],
    [id |-> 3,  q |-> -100000, t |-> 100, x |-> 0,  y |-> 10, tag |-> 0] }

ChannelSeqs == UNION {[1..k -> Kinds] : k \in 0..MaxCh}

\* The six parallel per-channel arrays of one row
RowOf(cs) ==
  [charge  |-> [k \in 1..Len(cs) |-> cs[k].q],
   time    |-> [k \in 1..Len(cs) |-> cs[k].t],
   xpos    |-> [k \in 1..Len(cs) |-> cs[k].x],
   ypos    |-> [k \in 1..Len(cs) |-> cs[k].y],
   noise   |-> [k \in 1..Len(cs) |-> cs[k].tag],
   localid |-> [k \in 1..Len(cs) |-> cs[k].id]]

Fields == {"charge", "time", "xpos", "ypos", "noise", "localid"}
WellFormed(row) == \A f \in Fields : Len(row[f]) = Len(row.charge)
WellFormedRows == {RowOf(cs) : cs \in ChannelSeqs}

\* A row with one array one element shorter or longer than the others
Extra == [time |-> 100, noise |-> 1, localid |-> 20]
Shorter(row, f) == [row EXCEPT ![f] = SubSeq(@, 1, Len(@) - 1)]
Longer(row, f) == [row EXCEPT ![f] = Append(@, Extra[f])]
MalformedRows ==
  {Shorter(r, f) : r \in {w \in WellFormedRows : w.charge # <<>>},
                   f \in DOMAIN Extra}
  \cup {Longer(r, f) : r \in WellFormedRows, f \in DOMAIN Extra}

Rows == WellFormedRows \cup MalformedRows

\* channel_threshold: a real number, or a value no charge compares with
Real(v) == [valid |-> TRUE, v |-> v]
BadThreshold == [valid |-> FALSE, v |-> 0]
Thresholds == {Real(DefaultThreshold), Real(5), Real(605), BadThreshold}

PhotonCounts == {0, 2}

---------------------------------------------------------------------------
(* ComputeObservedLight, lines 7-11 *)

\* detected_photons: one binomial draw per event, in row order
DetectedPhotons(nop, n, pos) ==
  [k \in 1..n |-> BinomialOf(nop, Word(Advance(pos, k - 1)))]

\* detected_photons + one poisson draw per event, drawn after all binomials
DetectedPhotoelectrons(nop, n, pos) ==
  LET ph == DetectedPhotons(nop, n, pos)
  IN [k \in 1..n |-> ph[k] + PoissonOf(ph[k], Word(Advance(pos, n + k - 1)))]

ComputeObservedLight ==
  /\ pc = "light"
  /\ detected_photoelectrons' =
       DetectedPhotoelectrons(dfsim.fInitNOP, dfsim.n, rng)
  /\ rng' = Advance(rng, 2 * dfsim.n)
  /\ pc' = "start"
  /\ UNCHANGED <<dfsim, dfelec, channel_threshold, seed, err, counter, ev,
                 lists, output_dict, run, first>>

---------------------------------------------------------------------------
(* ComputeObservedCharge, lines 17-145 *)

NoLists == [c \in Columns |-> <<>>]
\* The lists of the previous call, as lists kept outside the call would be
StaleLists == lists
\* lines 21-34: every call starts from fresh, empty lists
EmptyLists == [c \in Columns |-> <<>>]

\* lines 45-52: the per-event lists, and nch (line 54)
EmptyEv ==
  [nch |-> 0, i |-> 0, rng0 |-> 1,
   is_noise_channel |-> <<>>, drift_times |-> <<>>, x_positions |-> <<>>,
   y_positions |-> <<>>, x_weights |-> <<>>, y_weights |-> <<>>,
   charge_weights |-> <<>>, is_x_channel |-> <<>>, fluctuated_charge |-> <<>>]

Raise(e) == pc' = "raised" /\ err' = e

\* lines 17-37
Call ==
  /\ pc = "start"
  /\ output_dict' = <<>>
  /\ lists' = EmptyLists
  /\ counter' = 0
  /\ pc' = "loop"
  /\ UNCHANGED <<dfsim, dfelec, channel_threshold, seed, rng, err, ev,
                 detected_photoelectrons, run, first>>

\* line 42: the format arguments name time and start_time, which the module
\* neither imports nor defines
ProgressReportRaises == TRUE

\* lines 39-55: the next row, the progress report, the fresh per-event lists
NextRow ==
  /\ pc = "loop"
  /\ counter < dfelec.n
  /\ counter' = counter + 1
  /\ IF counter' % ReportInterval = 0 /\ ProgressReportRaises
     THEN /\ Raise("NameError")
          /\ UNCHANGED <<ev, lists>>
     ELSE LET n == Len(dfelec.row.charge)
          IN /\ ev' = [EmptyEv EXCEPT !.nch = n, !.rng0 = rng]
             /\ lists' = [lists EXCEPT !["num_channels_in_evt"] =
                                         ListAppend(@, n)]
             /\ pc' = IF n = 0 THEN "finish" ELSE "channels"
             /\ err' = err
  /\ UNCHANGED <<dfsim, dfelec, channel_threshold, seed, rng, output_dict,
                 detected_photoelectrons, run, first>>

---------------------------------------------------------------------------
(* The channel loop, lines 59-88 *)

\* The two strip orientations exchanged
StripGeometrySwapped(id) ==
  IF id > LocalIdSplit
  THEN [strip_width |-> StripShort, strip_height |-> StripLong,
        xoffset |-> 0, yoffset |-> -(StripLong \div 2)]
  ELSE [strip_width |-> StripLong, strip_height |-> StripShort,
        xoffset |-> -(StripLong \div 2), yoffset |-> 0]
\* lines 63-72
StripGeometry(id) ==
  IF id > LocalIdSplit
  THEN [strip_width |-> StripLong, strip_height |-> StripShort,
        xoffset |-> -(StripLong \div 2), yoffset |-> 0]
  ELSE [strip_width |-> StripShort, strip_height |-> StripLong,
        xoffset |-> 0, yoffset |-> -(StripLong \div 2)]

\* The noise tag ignored
TruthyNever(tag) == FALSE
\* line 74: if np.array(noiseTag):
Truthy(tag) == tag # 0

Outcome(e, pos, x) == [ev |-> e, rng |-> pos, err |-> x]

\* One pass of the loop body for channel e.i (0-based), reading the arrays in
\* the order the statements do; an index past an array's end raises.
ChannelStep(e, row, pos) ==
  LET k == e.i + 1 IN
  IF k > Len(row.localid) THEN Outcome(e, pos, "IndexError")
  ELSE IF k > Len(row.noise) THEN Outcome(e, pos, "IndexError")
  ELSE IF Truthy(row.noise[k])
  THEN Outcome([e EXCEPT !.i = k,
                         !.is_noise_channel = Append(@, TRUE)], pos, "none")
  ELSE
    LET g  == StripGeometry(row.localid[k])
        e1 == [e EXCEPT !.is_noise_channel = Append(@, FALSE)]
    IN
    IF k > Len(row.time) THEN Outcome(e1, pos, "IndexError")
    ELSE
      LET e2 == [e1 EXCEPT !.drift_times =
                   Append(@, Num(row.time[k] + JitterOf(Word(pos)), 1))]
          p2 == Advance(pos, 1)
      IN
      IF k > Len(row.xpos) THEN Outcome(e2, p2, "IndexError")
      ELSE
        LET e3 == [e2 EXCEPT !.x_positions =
                     Append(@, Num(row.xpos[k] + g.xoffset, 1))]
        IN
        IF k > Len(row.ypos) THEN Outcome(e3, p2, "IndexError")
        ELSE Outcome(
          [e3 EXCEPT
             !.y_positions = Append(@, Num(row.ypos[k] + g.yoffset, 1)),
             !.x_weights = Append(@, Num(1, g.strip_width)),
             !.y_weights = Append(@, Num(1, g.strip_height)),
             !.charge_weights = Append(@, Num(row.charge[k], 1)),
             !.is_x_channel = Append(@, row.localid[k] > LocalIdSplit),
             !.i = k],
          p2, "none")

Channel ==
  /\ pc = "channels"
  /\ LET r == ChannelStep(ev, dfelec.row, rng)
     IN /\ ev' = r.ev
        /\ rng' = r.rng
        /\ IF r.err # "none" THEN Raise(r.err)
           ELSE /\ pc' = IF r.ev.i = r.ev.nch THEN "finish" ELSE "channels"
                /\ err' = err
  /\ UNCHANGED <<dfsim, dfelec, channel_threshold, seed, counter, lists,
                 output_dict, detected_photoelectrons, run, first>>

---------------------------------------------------------------------------
(* The rest of the loop body, lines 90-125 *)

\* np.sum(values*weights)/np.sum(weights)
WeightedMean(values, weights) ==
  FDiv(FSum(Prod(values, weights)), FSum(weights))

\* lines 98-99
WeightedX(e) == WeightedMean(e.x_positions, Prod(e.charge_weights, e.x_weights))
WeightedY(e) == WeightedMean(e.y_positions, Prod(e.charge_weights, e.y_weights))
\* line 101
WeightedRadius(e) == FHypot(WeightedX(e), WeightedY(e))
\* line 103
WeightedDrift(e) == WeightedMean(e.drift_times, e.charge_weights)

\* charge > 0 in place of charge != 0
NonzeroMaskPositive(charge) == [k \in 1..Len(charge) |-> charge[k] > 0]
\* line 107
NonzeroMask(charge) == [k \in 1..Len(charge) |-> ~(charge[k] = 0)]
\* The charge without its noise draw
FluctuatedChargeNoDraw(charge, pos) == [k \in 1..Len(charge) |-> charge[k]]
\* lines 110-111: one normal(0, 600) draw per channel, added to its charge
FluctuatedCharge(charge, pos) ==
  [k \in 1..Len(charge) |-> NoiseOf(Word(Advance(pos, k - 1))) + charge[k]]
\* >= in place of >
ThresholdMaskInclusive(fluctuated, threshold) ==
  [k \in 1..Len(fluctuated) |-> fluctuated[k] >= threshold]
\* line 112
ThresholdMask(fluctuated, threshold) ==
  [k \in 1..Len(fluctuated) |-> fluctuated[k] > threshold]

Put(ls, c, v) == [ls EXCEPT ![c] = ListAppend(@, v)]

\* lines 114-125, given the masks
Aggregates(ls, charge, fluct, nonzero, above, notnoise) ==
  LET l1 == Put(ls, "num_channels_nonzero_charge_excluding_noise",
                CountTrue(MaskAnd(nonzero, notnoise)))
      l2 == Put(l1, "evt_charge_including_noise", SumWhere(charge, nonzero))
      l3 == Put(l2, "evt_charge_excluding_noise",
                SumWhere(charge, MaskAnd(nonzero, notnoise)))
      l4 == Put(l3, "evt_charge_above_threshold",
                SumWhere(fluct, MaskAnd(above, notnoise)))
      l5 == Put(l4, "num_channels_above_threshold",
                CountTrue(MaskAnd(above, notnoise)))
      l6 == Put(l5, "num_channels_excluding_noise", CountTrue(notnoise))
      l7 == Put(l6, "num_channels_collection",
                CountTrue(MaskAnd(notnoise, nonzero)))
      l8 == Put(l7, "num_collection_below_threshold",
                CountTrue(MaskAnd(MaskAnd(notnoise, nonzero), MaskNot(above))))
  IN Put(l8, "num_channels_induction",
         CountTrue(MaskAnd(notnoise, MaskNot(nonzero))))

\* np.array([]) is a float64 array, which np.invert refuses (TypeError);
\* np.array of Python bools is a bool array, which it inverts
InvertRaises(is_noise) == is_noise = <<>>

\* lines 90-125: [lists, ev, rng, err]
FinishStep(ls, e, row, pos, threshold) ==
  LET l1 == Put(Put(ls, "weighted_radius", WeightedRadius(e)),
                "weighted_drift", WeightedDrift(e))
      nonzero == NonzeroMask(row.charge)
      fluct == FluctuatedCharge(row.charge, pos)
      p2 == Advance(pos, e.nch)
      e2 == [e EXCEPT !.fluctuated_charge = fluct]
  IN
  IF ~threshold.valid
  THEN [lists |-> l1, ev |-> e2, rng |-> p2, err |-> "TypeError"]
  ELSE
    LET above == ThresholdMask(fluct, threshold.v)
        l2 == Put(l1, "num_channels_nonzero_charge_with_noise",
                  CountTrue(nonzero))
    IN
    IF InvertRaises(e.is_noise_channel)
    THEN [lists |-> l2, ev |-> e2, rng |-> p2, err |-> "TypeError"]
    ELSE [lists |-> Aggregates(l2, row.charge, fluct, nonzero, above,
                               MaskNot(e.is_noise_channel)),
          ev |-> e2, rng |-> p2, err |-> "none"]

Finish ==
  /\ pc = "finish"
  /\ LET r == FinishStep(lists, ev, dfelec.row, rng, channel_threshold)
     IN /\ lists' = r.lists
        /\ ev' = r.ev
        /\ rng' = r.rng
        /\ IF r.err # "none" THEN Raise(r.err)
           ELSE pc' = "loop" /\ err' = err
  /\ UNCHANGED <<dfsim, dfelec, channel_threshold, seed, counter,
                 output_dict, detected_photoelectrons, run, first>>

\* lines 127-145, once the loop has consumed every row
Return ==
  /\ pc = "loop"
  /\ counter = dfelec.n
  /\ output_dict' = [c \in Columns |-> lists[c]]
  /\ pc' = "returned"
  /\ UNCHANGED <<dfsim, dfelec, channel_threshold, seed, rng, err, counter,
                 ev, lists, detected_photoelectrons, run, first>>

---------------------------------------------------------------------------
(* A second run of the Extractor from the same seeded state, same input *)

Outputs ==
  [pc |-> pc, err |-> err, rng |-> rng, output_dict |-> output_dict,
   detected_photoelectrons |-> detected_photoelectrons]

Rerun ==
  /\ run = 1
  /\ pc \in {"returned", "raised"}
  /\ first' = Outputs
  /\ run' = 2
  /\ rng' = seed
  /\ pc' = "light"
  /\ err' = "none"
  /\ UNCHANGED <<dfsim, dfelec, channel_threshold, seed, counter, ev, lists,
                 output_dict, detected_photoelectrons>>

---------------------------------------------------------------------------
(* Specifications *)

InitWith(rows, thresholds, counts, photons, seeds, start) ==
  /\ dfelec \in {[row |-> r, n |-> n] : r \in rows, n \in counts}
  /\ dfsim \in {[fInitNOP |-> p, n |-> dfelec.n] : p \in photons}
  /\ channel_threshold \in thresholds
  /\ seed \in seeds
  /\ rng = seed
  /\ pc = start
  /\ err = "none"
  /\ counter = 0
  /\ ev = EmptyEv
  /\ lists = NoLists
  /\ output_dict = <<>>
  /\ detected_photoelectrons = <<>>
  /\ run = 1
  /\ first = <<>>

\* The Extractor run twice: light, then charge, then both again
Init == InitWith(WellFormedRows, Thresholds, 0..MaxEvents, PhotonCounts, Seeds,
                 "light")
Next ==
  \/ ComputeObservedLight
  \/ Call
  \/ NextRow
  \/ Channel
  \/ Finish
  \/ Return
  \/ Rerun
Spec == Init /\ [][Next]_vars

\* One call of ComputeObservedCharge on any row, well-formed or not
InitCharge == InitWith(Rows, Thresholds, 0..MaxEvents, {0}, Seeds, "start")
NextCharge ==
  \/ Call
  \/ NextRow
  \/ Channel
  \/ Finish
  \/ Return
SpecCharge == InitCharge /\ [][NextCharge]_vars

\* One call of ComputeObservedCharge on a table long enough for the progress
\* report: a well-formed row, the default threshold
LongRow == RowOf(<<[id |-> 3, q |-> 5, t |-> 100, x |-> 0, y |-> 10, tag |-> 1]>>)
InitLong ==
  InitWith({LongRow}, {Real(DefaultThreshold)}, {1, ReportInterval}, {0},
           {1}, "start")
SpecLong == InitLong /\ [][NextCharge]_vars

---------------------------------------------------------------------------
(* Claims *)

\* The row of the event the loop body last worked on
Row == dfelec.row
\* An event has been aggregated and its record appended
EventDone == pc = "loop" /\ counter >= 1
Entry(c) == ListLast(lists[c])

\* C1: a call on a table of well-formed rows (here n = 1 or n = 100,000)
\* never ends early with an exception, the progress report included, and the
\* dictionary it returns has n entries in each of the 13 columns.
C1_AllEventsProcessed ==
  /\ pc # "raised"
  /\ pc = "returned" =>
       \A c \in Columns : ListLen(output_dict[c]) = dfelec.n

\* C2: a row whose six per-channel arrays differ in length aborts the batch
\* at that event: its event is never completed and no result is returned.
C2_MismatchAborts ==
  (~WellFormed(Row) /\ dfelec.n >= 1) => ~EventDone /\ pc # "returned"

\* The channels of a row are the indices of its charge array (line 54)
Channels(row) == 1..Len(row.charge)
IsNoise(row, k) == row.noise[k] # 0
NonNoise(row) == {k \in Channels(row) : ~IsNoise(row, k)}
NoiseCount(row) == Cardinality({k \in Channels(row) : IsNoise(row, k)})

NoiseExcludingColumns ==
  {"num_channels_excluding_noise", "num_channels_collection",
   "num_channels_induction", "num_channels_above_threshold",
   "num_channels_nonzero_charge_excluding_noise",
   "evt_charge_excluding_noise", "evt_charge_above_threshold"}

\* C3: an event with zero non-noise channels (all channels noise, or no
\* channel at all) raises nothing; its weighted_radius and weighted_drift are
\* NaN and its noise-excluding counts and charges are 0.
C3_NoNonNoiseNoException ==
  (WellFormed(Row) /\ channel_threshold.valid /\ NonNoise(Row) = {}) =>
    /\ pc # "raised"
    /\ EventDone =>
         /\ Entry("weighted_radius").t = "nan"
         /\ Entry("weighted_drift").t = "nan"
         /\ \A c \in NoiseExcludingColumns : Entry(c) = 0

\* The same for the events that do have channels, all of them noise
AllNoiseHandled ==
  (WellFormed(Row) /\ channel_threshold.valid /\ NonNoise(Row) = {}
     /\ Row.charge # <<>>) =>
    /\ pc # "raised"
    /\ EventDone =>
         /\ Entry("weighted_radius").t = "nan"
         /\ Entry("weighted_drift").t = "nan"
         /\ \A c \in NoiseExcludingColumns : Entry(c) = 0

\* C5: with a channel_threshold no charge compares with, the call fails
\* before any event is processed: it never returns, no row is consumed, no
\* draw is taken and nothing is appended.
C5_BadThresholdFailsFast ==
  ~channel_threshold.valid =>
    /\ pc # "returned"
    /\ counter = 0
    /\ rng = seed
    /\ \A c \in Columns : lists[c] = <<>>

---------------------------------------------------------------------------
(* Reference values, computed from the row and the random stream alone *)

RECURSIVE IntSum(_)
IntSum(s) == IF s = <<>> THEN 0 ELSE Head(s) + IntSum(Tail(s))

\* The position and the weights (times 96) of channel k as the
\* specification states them
RefChannel(row, k) ==
  IF row.localid[k] > 15
  THEN [x |-> row.xpos[k] - 48, y |-> row.ypos[k], xw |-> 1, yw |-> 16]
  ELSE [x |-> row.xpos[k], y |-> row.ypos[k] - 48, xw |-> 16, yw |-> 1]

OverNonNoise(row, T(_)) ==
  IntSum([k \in Channels(row) |-> IF IsNoise(row, k) THEN 0 ELSE T(k)])

\* 96 * sum(charge*xWeight), 96 * sum(x*charge*xWeight), and for y
RefDenX(row) ==
  LET T(k) == row.charge[k] * RefChannel(row, k).xw IN OverNonNoise(row, T)
RefNumX(row) ==
  LET T(k) == RefChannel(row, k).x * row.charge[k] * RefChannel(row, k).xw
  IN OverNonNoise(row, T)
RefDenY(row) ==
  LET T(k) == row.charge[k] * RefChannel(row, k).yw IN OverNonNoise(row, T)
RefNumY(row) ==
  LET T(k) == RefChannel(row, k).y * row.charge[k] * RefChannel(row, k).yw
  IN OverNonNoise(row, T)

Ratio(n, d) == IF d < 0 THEN Num(-n, -d) ELSE Num(n, d)

\* The word j draws after position pos of the stream
DrawAfter(pos, j) == Stream[((pos - 1 + j) % Len(Stream)) + 1]

\* Channel k's charge plus its noise draw: the event's draws are one jitter
\* draw per non-noise channel, then one noise draw per channel, in order
RefFluctuated(k) ==
  Row.charge[k]
    + 600 * (DrawAfter(ev.rng0, Cardinality(NonNoise(Row)) + k - 1) - 1)

---------------------------------------------------------------------------

\* C4 as claimed: weighted_radius is NaN exactly for the events with zero
\* non-noise channels, and otherwise a value >= 0.
C4_NaNIffNoNonNoise ==
  EventDone =>
    /\ Entry("weighted_radius").t \in {"nan", "inf", "hypot"}
    /\ Entry("weighted_radius").t = "nan" <=> NonNoise(Row) = {}

\* C4, amended: weighted_radius is NaN, +inf or a finite value >= 0; it is
\* NaN for every event with zero non-noise channels, and in general exactly
\* when for x or for y both the weight sum and the weighted position sum
\* over the non-noise channels are zero; it is finite exactly when both
\* weight sums are nonzero.
C4_RadiusDefinedness ==
  EventDone =>
    LET r == Entry("weighted_radius")
        nanx == RefDenX(Row) = 0 /\ RefNumX(Row) = 0
        nany == RefDenY(Row) = 0 /\ RefNumY(Row) = 0
    IN /\ r.t \in {"nan", "inf", "hypot"}
       /\ NonNoise(Row) = {} => r.t = "nan"
       /\ r.t = "nan" <=> (nanx \/ nany)
       /\ r.t = "hypot" <=> (RefDenX(Row) # 0 /\ RefDenY(Row) # 0)

\* An event with non-noise channels, all induction, gets a NaN radius
C4_Witness ==
  /\ EventDone
  /\ NonNoise(Row) # {}
  /\ \A k \in NonNoise(Row) : Row.charge[k] = 0
  /\ Entry("weighted_radius").t = "nan"

\* C6: every channel is counted in exactly one of noise, collection and
\* induction: num_channels_in_evt = num_channels_excluding_noise + noise
\* channels, collection + induction = num_channels_excluding_noise, with
\* collection the non-noise channels of nonzero charge and induction those of
\* zero charge.
C6_ChannelPartition ==
  EventDone =>
    /\ Entry("num_channels_in_evt")
         = Entry("num_channels_excluding_noise") + NoiseCount(Row)
    /\ Entry("num_channels_collection") + Entry("num_channels_induction")
         = Entry("num_channels_excluding_noise")
    /\ Entry("num_channels_collection")
         = Cardinality({k \in NonNoise(Row) : Row.charge[k] # 0})
    /\ Entry("num_channels_induction")
         = Cardinality({k \in NonNoise(Row) : Row.charge[k] = 0})

C6_Witness ==
  /\ EventDone
  /\ NoiseCount(Row) >= 1
  /\ Entry("num_channels_collection") + Entry("num_channels_induction") >= 1

\* C7: num_channels_above_threshold counts exactly the non-noise channels
\* whose charge plus noise draw is strictly greater than channel_threshold,
\* so it never exceeds num_channels_excluding_noise; with the threshold at or
\* above every fluctuated charge of the event it is 0 and so is
\* evt_charge_above_threshold.
C7_AboveThreshold ==
  (EventDone /\ channel_threshold.valid) =>
    /\ Entry("num_channels_above_threshold")
         = Cardinality({k \in NonNoise(Row) :
                          RefFluctuated(k) > channel_threshold.v})
    /\ Entry("num_channels_above_threshold")
         <= Entry("num_channels_excluding_noise")
    /\ (\A k \in Channels(Row) : RefFluctuated(k) <= channel_threshold.v) =>
         /\ Entry("num_channels_above_threshold") = 0
         /\ Entry("evt_charge_above_threshold") = 0

\* A non-noise channel whose fluctuated charge equals the threshold
C7_Witness ==
  /\ EventDone
  /\ channel_threshold.valid
  /\ \A k \in Channels(Row) : RefFluctuated(k) <= channel_threshold.v
  /\ \E k \in NonNoise(Row) : RefFluctuated(k) = channel_threshold.v

\* C8 as claimed: with the default threshold every non-noise channel is
\* above threshold, whatever its charge and its noise draw.
C8_DefaultAcceptsAll ==
  (EventDone /\ channel_threshold = Real(-100000)) =>
    /\ Entry("num_channels_above_threshold")
         = Entry("num_channels_excluding_noise")
    /\ Entry("num_collection_below_threshold") = 0

\* C8, amended: with the default threshold a non-noise channel is above
\* threshold exactly when its fluctuated charge is greater than -100000; so
\* all non-noise channels are above threshold, and no collection channel is
\* below, in every event whose non-noise fluctuated charges all exceed
\* -100000, and only in those.
C8_DefaultThreshold ==
  (EventDone /\ channel_threshold = Real(-100000)) =>
    LET low == {k \in NonNoise(Row) : RefFluctuated(k) <= -100000}
    IN /\ Entry("num_channels_above_threshold")
            = Entry("num_channels_excluding_noise") - Cardinality(low)
       /\ Entry("num_collection_below_threshold")
            = Cardinality({k \in low : Row.charge[k] # 0})
       /\ low = {} <=> Entry("num_channels_above_threshold")
                         = Entry("num_channels_excluding_noise")

\* A channel of charge -100000 is kept or dropped by its noise draw
C8_Witness ==
  /\ EventDone
  /\ channel_threshold = Real(-100000)
  /\ Entry("num_collection_below_threshold") = 1
  /\ Entry("num_channels_above_threshold") = 1

\* The scenario: an X-channel at (10, 0) and a Y-channel at (0, 10), each
\* of charge 5 and drift time 100, neither noise
ScenarioX == [id |-> 20, q |-> 5, t |-> 100, x |-> 10, y |-> 0, tag |-> 0]
ScenarioY == [id |-> 3, q |-> 5, t |-> 100, x |-> 0, y |-> 10, tag |-> 0]
ScenarioRows == {RowOf(<<ScenarioX, ScenarioY>>), RowOf(<<ScenarioY, ScenarioX>>)}

---------------------------------------------------------------------------
(* A second call on a table that differs only in its noise channels *)

\* Other values for the charge, time, position and localId of a channel
\* whose noiseTag is truthy
NoiseVariants ==
  { [id |-> 20, q |-> 0,   t |-> 104, x |-> 10, y |-> 0],
    [id |-> 3,  q |-> 700, t |-> 96,  x |-> 48, y |-> 58] }

NoiseChannels(row) == {k \in 1..Len(row.charge) : row.noise[k] # 0}

\* The row with noise channel k given the values f[k]; the other channels
\* and every noiseTag as they were
Varied(row, f) ==
  LET V(a, k, v) == IF k \in DOMAIN f THEN v ELSE a[k]
  IN [charge  |-> [k \in 1..Len(row.charge) |-> V(row.charge, k, f[k].q)],
      time    |-> [k \in 1..Len(row.time) |-> V(row.time, k, f[k].t)],
      xpos    |-> [k \in 1..Len(row.xpos) |-> V(row.xpos, k, f[k].x)],
      ypos    |-> [k \in 1..Len(row.ypos) |-> V(row.ypos, k, f[k].y)],
      noise   |-> row.noise,
      localid |-> [k \in 1..Len(row.localid) |-> V(row.localid, k, f[k].id)]]

\* The caller re-seeds and calls ComputeObservedCharge on the varied table
RerunVaried ==
  /\ run = 1
  /\ pc \in {"returned", "raised"}
  /\ \E f \in [NoiseChannels(dfelec.row) -> NoiseVariants] :
       dfelec' = [dfelec EXCEPT !.row = Varied(dfelec.row, f)]
  /\ first' = Outputs
  /\ run' = 2
  /\ rng' = seed
  /\ pc' = "start"
  /\ err' = "none"
  /\ UNCHANGED <<dfsim, channel_threshold, seed, counter, ev, lists,
                 output_dict, detected_photoelectrons>>

InitPair == InitWith(WellFormedRows, Thresholds, 0..MaxEvents, {0}, Seeds,
                     "start")
NextPair ==
  \/ Call
  \/ NextRow
  \/ Channel
  \/ Finish
  \/ Return
  \/ RerunVaried
SpecPair == InitPair /\ [][NextPair]_vars

NoiseBlindColumns ==
  {"weighted_radius", "weighted_drift", "evt_charge_excluding_noise",
   "num_channels_excluding_noise", "num_channels_collection",
   "num_channels_induction", "num_channels_above_threshold",
   "num_collection_below_threshold",
   "num_channels_nonzero_charge_excluding_noise"}

\* C11: of two tables that differ only in the charge, time, position and
\* localId of channels whose noiseTag is truthy, processed from the same
\* state of the random source, the calls end alike, with the same
\* weighted_radius, weighted_drift, evt_charge_excluding_noise and
\* noise-excluding channel counts and the random source in the same state;
\* the channel loop takes one jitter draw per non-noise channel and none for
\* a noise channel.
C11_NoiseChannelsIgnored ==
  /\ pc = "finish" =>
       rng = ((ev.rng0 - 1 + Cardinality(NonNoise(Row))) % Len(Stream)) + 1
  /\ (run = 2 /\ pc \in {"returned", "raised"}) =>
       /\ pc = first.pc
       /\ err = first.err
       /\ rng = first.rng
       /\ pc = "returned" =>
            \A c \in NoiseBlindColumns :
              output_dict[c] = first.output_dict[c]

\* The second table's noise channel differs, which shows in the charge
\* including noise, next to a non-noise channel with a defined position
C11_Witness ==
  /\ run = 2
  /\ pc = "returned"
  /\ NonNoise(Row) # {}
  /\ NoiseChannels(Row) # {}
  /\ output_dict["evt_charge_including_noise"]
       # first.output_dict["evt_charge_including_noise"]
  /\ ListLast(output_dict["weighted_radius"]).t = "hypot"
  /\ output_dict["weighted_radius"] = first.output_dict["weighted_radius"]

====
